---------------------------- MODULE Spec2Model ----------------------------
(***************************************************************************)
(* Model of the Home Assistant -> 163 IoT gateway:                         *)
(*   src/ha_to_163/device_discovery/ha_discovery.py  (HADiscovery)         *)
(*   src/ha_to_163/main.py                           (HAto163Gateway)      *)
(*                                                                         *)
(* Python strings are tuples of one-character strings, so that the         *)
(* substring tests, replace(), strip(), lower() and split() of the source  *)
(* are computed and not assumed.                                           *)
(***************************************************************************)
EXTENDS Integers, Sequences, FiniteSets, TLC

\* Python's None
None == "None"

(***************************************************************************)
(* str operations used by the source                                       *)
(***************************************************************************)

\* s.startswith(p)
StartsWith(s, p) == Len(p) <= Len(s) /\ SubSeq(s, 1, Len(p)) = p

\* p in s
Contains(s, p) == \E i \in 1..(Len(s) - Len(p) + 1) : SubSeq(s, i, i + Len(p) - 1) = p

\* s.find(p) + 1 for a p that occurs in s
Find(s, p) == CHOOSE i \in 1..(Len(s) - Len(p) + 1) :
                  /\ SubSeq(s, i, i + Len(p) - 1) = p
                  /\ \A j \in 1..(i - 1) : SubSeq(s, j, j + Len(p) - 1) # p

\* s.replace(p, "")
RECURSIVE Replace(_, _)
Replace(s, p) == IF p = <<>> \/ ~Contains(s, p) THEN s
                 ELSE LET i == Find(s, p)
                      IN  SubSeq(s, 1, i - 1) \o Replace(SubSeq(s, i + Len(p), Len(s)), p)

\* s.lstrip(c), s.rstrip(c), s.strip(c)
RECURSIVE LStrip(_, _)
LStrip(s, c) == IF s # <<>> /\ Head(s) = c THEN LStrip(Tail(s), c) ELSE s
RECURSIVE RStrip(_, _)
RStrip(s, c) == IF s # <<>> /\ s[Len(s)] = c THEN RStrip(SubSeq(s, 1, Len(s) - 1), c) ELSE s
Strip(s, c) == RStrip(LStrip(s, c), c)

\* s.lower()
UpperChars == <<"A","B","C","D","E","F","G","H","I","J","K","L","M","N","O","P","Q","R","S","T","U","V","W","X","Y","Z">>
LowerChars == <<"a","b","c","d","e","f","g","h","i","j","k","l","m","n","o","p","q","r","s","t","u","v","w","x","y","z">>
LowerChar(c) == IF \E i \in 1..Len(UpperChars) : UpperChars[i] = c
                THEN LowerChars[CHOOSE i \in 1..Len(UpperChars) : UpperChars[i] = c]
                ELSE c
Lower(s) == [i \in 1..Len(s) |-> LowerChar(s[i])]

\* s.split(sep)[0] for a one-character sep
SplitHead(s, sep) == IF \E i \in 1..Len(s) : s[i] = sep
                     THEN SubSeq(s, 1, (CHOOSE i \in 1..Len(s) : s[i] = sep /\ \A j \in 1..(i - 1) : s[j] # sep) - 1)
                     ELSE s

Min(S) == CHOOSE x \in S : \A y \in S : x <= y

(***************************************************************************)
(* PROPERTY_MAPPING, in the dict's insertion order (iteration order of     *)
(* .items())                                                               *)
(***************************************************************************)
PROPERTY_MAPPING ==
    <<
       [k |-> <<"t","e","m","p","e","r","a","t","u","r","e">>, v |-> "temp"],
       [k |-> <<"t","e","m","p">>, v |-> "temp"],
       [k |-> <<"t","e","m","p","_","c">>, v |-> "temp"],
       [k |-> <<"t","e","m","p","_","f">>, v |-> "temp"],
       [k |-> <<"t","e","m","p","e","r","a","t","u","r","e","_","p">>, v |-> "temp"],
       [k |-> <<"t","e","m","p","_","p">>, v |-> "temp"],
       [k |-> <<"h","u","m","i","d","i","t","y">>, v |-> "hum"],
       [k |-> <<"h","u","m">>, v |-> "hum"],
       [k |-> <<"h","u","m","i","d","i","t","y","_","p","e","r","c","e","n","t">>, v |-> "hum"],
       [k |-> <<"r","e","l","a","t","i","v","e","_","h","u","m","i","d","i","t","y">>, v |-> "relative_hum"],
       [k |-> <<"h","u","m","_","p">>, v |-> "hum"],
       [k |-> <<"b","a","t","t","e","r","y">>, v |-> "battery"],
       [k |-> <<"b","a","t","t">>, v |-> "battery"],
       [k |-> <<"b","a","t","t","e","r","y","_","l","e","v","e","l">>, v |-> "battery"],
       [k |-> <<"b","a","t","t","e","r","y","_","p","e","r","c","e","n","t">>, v |-> "battery"],
       [k |-> <<"b","a","t","t","_","p">>, v |-> "battery"],
       [k |-> <<"s","m","o","k","e","_","c","o","n","c","e","n","t","r","a","t","i","o","n">>, v |-> "smoke"],
       [k |-> <<"s","m","o","k","e">>, v |-> "smoke"],
       [k |-> <<"s","m","o","k","e","_","l","e","v","e","l">>, v |-> "smoke"],
       [k |-> <<"c","a","r","b","o","n","_","d","i","o","x","i","d","e">>, v |-> "co2"],
       [k |-> <<"c","o","2">>, v |-> "co2"],
       [k |-> <<"c","a","r","b","o","n","_","d","i","o","x","i","d","e","_","c","o","n","c","e","n","t","r","a","t","i","o","n">>, v |-> "co2"],
       [k |-> <<"p","m","2","5">>, v |-> "pm2_5"],
       [k |-> <<"p","m","2",".","5">>, v |-> "pm2_5"],
       [k |-> <<"p","a","r","t","i","c","u","l","a","t","e","_","m","a","t","t","e","r","_","2","_","5">>, v |-> "pm2_5"],
       [k |-> <<"p","m","1","0">>, v |-> "pm10"],
       [k |-> <<"p","a","r","t","i","c","u","l","a","t","e","_","m","a","t","t","e","r","_","1","0">>, v |-> "pm10"],
       [k |-> <<"t","v","o","c">>, v |-> "tvoc"],
       [k |-> <<"t","o","t","a","l","_","v","o","l","a","t","i","l","e","_","o","r","g","a","n","i","c","_","c","o","m","p","o","u","n","d","s">>, v |-> "tvoc"],
       [k |-> <<"n","o","i","s","e">>, v |-> "noise"],
       [k |-> <<"s","o","u","n","d","_","l","e","v","e","l">>, v |-> "noise"],
       [k |-> <<"n","o","i","s","e","_","d","e","c","i","b","e","l">>, v |-> "noise"],
       [k |-> <<"d","o","o","r">>, v |-> "switch"],
       [k |-> <<"d","o","o","r","_","s","t","a","t","e">>, v |-> "switch"],
       [k |-> <<"c","o","n","t","a","c","t">>, v |-> "switch"],
       [k |-> <<"s","t","a","t","e">>, v |-> "state"],
       [k |-> <<"o","n">>, v |-> "state"],
       [k |-> <<"o","f","f">>, v |-> "state"],
       [k |-> <<"e","l","e","c","t","r","i","c","_","p","o","w","e","r">>, v |-> "active_power"],
       [k |-> <<"p","o","w","e","r">>, v |-> "active_power"],
       [k |-> <<"a","c","t","i","v","e","_","p","o","w","e","r">>, v |-> "active_power"],
       [k |-> <<"e","l","e","c","_","p","o","w","e","r">>, v |-> "active_power"],
       [k |-> <<"p","o","w","e","r","_","w">>, v |-> "active_power"],
       [k |-> <<"p","o","w","e","r","_","c","o","n","s","u","m","p","t","i","o","n">>, v |-> "energy"],
       [k |-> <<"e","n","e","r","g","y">>, v |-> "energy"],
       [k |-> <<"k","w","h">>, v |-> "energy"],
       [k |-> <<"e","l","e","c","t","r","i","c","i","t","y","_","u","s","e","d">>, v |-> "energy"],
       [k |-> <<"e","n","e","r","g","y","_","k","w","h">>, v |-> "energy"],
       [k |-> <<"c","u","r","r","e","n","t">>, v |-> "current"],
       [k |-> <<"e","l","e","c","t","r","i","c","_","c","u","r","r","e","n","t">>, v |-> "current"],
       [k |-> <<"c","u","r","r","e","n","t","_","a">>, v |-> "current"],
       [k |-> <<"v","o","l","t","a","g","e">>, v |-> "voltage"],
       [k |-> <<"v","o","l","t","a","g","e","_","v">>, v |-> "voltage"],
       [k |-> <<"f","r","e","q","u","e","n","c","y">>, v |-> "frequency"],
       [k |-> <<"f","r","e","q","u","e","n","c","y","_","h","z">>, v |-> "frequency"]
    >>

\* device_class in PROPERTY_MAPPING
InMapping(key) == \E i \in 1..Len(PROPERTY_MAPPING) : PROPERTY_MAPPING[i].k = key

\* PROPERTY_MAPPING[key]
MappingGet(key) == PROPERTY_MAPPING[CHOOSE i \in 1..Len(PROPERTY_MAPPING) : PROPERTY_MAPPING[i].k = key].v

\* the value of the first item of PROPERTY_MAPPING.items() whose index is in hits
\* (the loop that breaks on the first hit), None when the loop ends without one
FirstHit(hits) == IF hits = {} THEN None ELSE PROPERTY_MAPPING[Min(hits)].v

environment_types == {"sensor"}
electric_device_types == {"switch", "socket", "breaker"}
ElectricProps == {"active_power", "energy", "current", "voltage", "frequency"}

\* a _match_environment_entity that would consult the residual name before
\* the device class
EnvironmentPropertyNameFirst(entity, ha_prefix) ==
    LET entity_id     == entity.entity_id
        device_class  == Lower(entity.device_class)
        entity_core   == Strip(Replace(entity_id, ha_prefix), "_")
        byName == FirstHit({i \in 1..Len(PROPERTY_MAPPING) :
                               \/ Contains(entity_core, PROPERTY_MAPPING[i].k)
                               \/ Contains(PROPERTY_MAPPING[i].k, entity_core)})
    IN  IF ~Contains(entity_id, ha_prefix) THEN None
        ELSE IF entity_core # <<>> /\ byName # None THEN byName
        ELSE IF InMapping(device_class) THEN MappingGet(device_class)
        ELSE None

\* _match_environment_entity up to its save: the property name the entity
\* resolves to for a device whose raw_prefix is ha_prefix, or None
EnvironmentProperty(entity, ha_prefix) ==
    LET entity_id     == entity.entity_id
        device_class  == Lower(entity.device_class)
        friendly_name == Lower(entity.friendly_name)
        entity_core   == Strip(Replace(entity_id, ha_prefix), "_")
    IN  IF ~Contains(entity_id, ha_prefix) THEN None
        ELSE IF InMapping(device_class) THEN MappingGet(device_class)
        ELSE IF entity_core # <<>>
             THEN FirstHit({i \in 1..Len(PROPERTY_MAPPING) :
                               \/ Contains(entity_core, PROPERTY_MAPPING[i].k)
                               \/ Contains(PROPERTY_MAPPING[i].k, entity_core)})
        ELSE IF friendly_name # <<>>
             THEN FirstHit({i \in 1..Len(PROPERTY_MAPPING) :
                               Contains(friendly_name, PROPERTY_MAPPING[i].k)})
        ELSE None

\* a _match_electric_entity that would consult the device class before the
\* domain of the entity
ElectricPropertyClassFirst(entity, ha_prefix) ==
    LET entity_id     == entity.entity_id
        device_class  == Lower(entity.device_class)
        entity_type   == SplitHead(entity_id, ".")
    IN  IF ~Contains(entity_id, ha_prefix) THEN None
        ELSE IF InMapping(device_class) THEN MappingGet(device_class)
        ELSE IF entity_type = (* switch *) <<"s","w","i","t","c","h">> THEN "state"
        ELSE None

\* _match_electric_entity up to its save
ElectricProperty(entity, ha_prefix) ==
    LET entity_id     == entity.entity_id
        device_class  == Lower(entity.device_class)
        friendly_name == Lower(entity.friendly_name)
        entity_type   == SplitHead(entity_id, ".")
        byId   == IF InMapping(device_class) THEN MappingGet(device_class)
                  ELSE FirstHit({i \in 1..Len(PROPERTY_MAPPING) :
                                    /\ Contains(Lower(entity_id), PROPERTY_MAPPING[i].k)
                                    /\ PROPERTY_MAPPING[i].v \in ElectricProps})
        byName == IF byId = None /\ friendly_name # <<>>
                  THEN FirstHit({i \in 1..Len(PROPERTY_MAPPING) :
                                    /\ Contains(friendly_name, PROPERTY_MAPPING[i].k)
                                    /\ PROPERTY_MAPPING[i].v \in ElectricProps})
                  ELSE byId
    IN  IF ~Contains(entity_id, ha_prefix) THEN None
        ELSE IF entity_type = (* switch *) <<"s","w","i","t","c","h">> THEN "state"
        ELSE IF entity_type = (* sensor *) <<"s","e","n","s","o","r">> THEN byName
        ELSE None


(***************************************************************************)
(* Numbers.  A collected value is a rational <<numerator, denominator>> in *)
(* lowest terms with a positive denominator; float arithmetic of the       *)
(* source is exact rational arithmetic here.                               *)
(***************************************************************************)
Abs(n) == IF n < 0 THEN -n ELSE n

RECURSIVE Gcd(_, _)
Gcd(a, b) == IF b = 0 THEN a ELSE Gcd(b, a % b)

Rat(n, d) == LET g == Gcd(Abs(n), d) IN <<n \div g, d \div g>>

IntVal(n) == <<n, 1>>

RECURSIVE Pow10(_)
Pow10(n) == IF n = 0 THEN 1 ELSE 10 * Pow10(n - 1)

\* value * factor
RatMul(a, b) == Rat(a[1] * b[1], a[2] * b[2])

\* round(x, ndigits): to the nearest multiple of 10^-ndigits, a tie to the even one
Round(x, ndigits) ==
    LET num == x[1] * Pow10(ndigits)
        q   == num \div x[2]
        r2  == 2 * (num % x[2])
        k   == IF r2 < x[2] THEN q
               ELSE IF r2 > x[2] THEN q + 1
               ELSE IF q % 2 = 0 THEN q ELSE q + 1
    IN  Rat(k, Pow10(ndigits))

(***************************************************************************)
(* HAto163Gateway._get_entity_value: from the state text to the value      *)
(***************************************************************************)
Digits == <<"0","1","2","3","4","5","6","7","8","9">>
IsDigit(c) == \E i \in 1..10 : Digits[i] = c
DigitVal(c) == (CHOOSE i \in 1..10 : Digits[i] = c) - 1

\* the number of digits of s from position i on
RECURSIVE DigitRun(_, _)
DigitRun(s, i) == IF i <= Len(s) /\ IsDigit(s[i]) THEN 1 + DigitRun(s, i + 1) ELSE 0

\* the value of the digits s[i..j]
RECURSIVE DigitsVal(_, _, _)
DigitsVal(s, i, j) == IF j < i THEN 0 ELSE 10 * DigitsVal(s, i, j - 1) + DigitVal(s[j])

\* The first alternative of the pattern, [-+]?\d*\.\d+, matched at i: the
\* length of the match, 0 when it does not match there
DecimalAt(s, i) ==
    LET sg == IF s[i] \in {"-", "+"} THEN 1 ELSE 0
        ip == DigitRun(s, i + sg)
        dot == i + sg + ip
        fp == IF dot <= Len(s) /\ s[dot] = "." THEN DigitRun(s, dot + 1) ELSE 0
    IN  IF fp > 0 THEN sg + ip + 1 + fp ELSE 0

\* re.search(r'[-+]?\d*\.\d+|\d+', state): <<start, length>> of the match,
\* <<0, 0>> when there is none
NumeralSearch(s) ==
    LET hits == {i \in 1..Len(s) : DecimalAt(s, i) > 0 \/ IsDigit(s[i])}
    IN  IF hits = {} THEN <<0, 0>>
        ELSE LET i == Min(hits)
             IN  <<i, IF DecimalAt(s, i) > 0 THEN DecimalAt(s, i) ELSE DigitRun(s, i)>>

\* float(match.group())
FloatOf(m) ==
    LET sg   == IF m[1] \in {"-", "+"} THEN 1 ELSE 0
        ip   == DigitRun(m, 1 + sg)
        frac == IF 1 + sg + ip <= Len(m) THEN Len(m) - (1 + sg + ip) ELSE 0
        whole == DigitsVal(m, 1 + sg, sg + ip)
        part  == IF frac > 0 THEN DigitsVal(m, sg + ip + 2, Len(m)) ELSE 0
        mag   == Rat(whole * Pow10(frac) + part, Pow10(frac))
    IN  IF sg = 1 /\ m[1] = "-" THEN <<-mag[1], mag[2]>> ELSE mag

UnknownStates == { (* unknown *) <<"u","n","k","n","o","w","n">>, (* unavailable *) <<"u","n","a","v","a","i","l","a","b","l","e">>, (* empty *) <<>> }

\* lines 129-149: what a meaningful state text becomes (None: no value)
StateValue(state, entity_id, device_type) ==
    LET m == NumeralSearch(state)
    IN  IF device_type \in {"switch", "socket", "breaker"} /\ state = (* on *) <<"o","n">> THEN IntVal(1)
        ELSE IF device_type \in {"switch", "socket", "breaker"} /\ state = (* off *) <<"o","f","f">> THEN IntVal(0)
        ELSE IF device_type = "breaker" /\ state = (* trip *) <<"t","r","i","p">> THEN IntVal(2)
        ELSE IF device_type = "sensor" /\ StartsWith(entity_id, (* binary_sensor. *) <<"b","i","n","a","r","y","_","s","e","n","s","o","r",".">>)
             THEN (IF state = (* on *) <<"o","n">> THEN IntVal(1) ELSE IntVal(0))
        ELSE IF m[2] > 0 THEN FloatOf(SubSeq(state, m[1], m[1] + m[2] - 1))
        ELSE None

\* seconds: the request timeout of line 120 and the pause of lines 126, 153
REQUEST_TIMEOUT == 5
POLL_SLEEP == 2

\* how long one GET /api/states/<entity_id> can take, in seconds
Durations == {1, REQUEST_TIMEOUT}

\* bound: the polls one _get_entity_value call of a push thread makes
MaxPolls == 2

\* the state texts the platform answers with
StateTexts == { (* unknown *) <<"u","n","k","n","o","w","n">>, (* unavailable *) <<"u","n","a","v","a","i","l","a","b","l","e">>, (* empty *) <<>>, (* on *) <<"o","n">>, (* 21.4 *) <<"2","1",".","4">>, (* n/a *) <<"n","/","a">> }

\* what one GET /api/states/<entity_id> can do: a 200 answer carrying a
\* state, a 200 answer whose body has no "state", another status, a
\* RequestException
Responses ==
    {[kind |-> "200", state |-> s, dur |-> d] : s \in StateTexts, d \in Durations}
    \cup {[kind |-> k, state |-> <<>>, dur |-> d] :
             k \in {"200_no_state", "non200", "request_exception"}, d \in Durations}

\* the test of the while loop of _get_entity_value, line 116
PollAgain(elapsed, timeout) == elapsed < timeout

\* an iteration without the test of line 125: "unknown", "unavailable" and
\* "" would be converted like any other state text
PollOnceWithoutUnknownTest(elapsed, r, entity_id, device_type) ==
    CASE r.kind = "200" ->
             [ret |-> TRUE, value |-> StateValue(r.state, entity_id, device_type),
              elapsed |-> elapsed + r.dur]
      [] r.kind = "200_no_state" ->
             [ret |-> TRUE, value |-> None, elapsed |-> elapsed + r.dur]
      [] OTHER ->
             [ret |-> FALSE, value |-> None, elapsed |-> elapsed + r.dur]

\* One iteration of the while loop of _get_entity_value, lines 117-153,
\* with response r: whether the call returns, what it returns, and the
\* time since start_time afterwards.  A body without "state" gives None to
\* re.search, which raises; line 158 catches it and returns None.
PollOnce(elapsed, r, entity_id, device_type) ==
    CASE r.kind = "200" /\ r.state \in UnknownStates ->
             [ret |-> FALSE, value |-> None, elapsed |-> elapsed + r.dur + POLL_SLEEP]
      [] r.kind = "200" /\ r.state \notin UnknownStates ->
             [ret |-> TRUE, value |-> StateValue(r.state, entity_id, device_type),
              elapsed |-> elapsed + r.dur]
      [] r.kind = "200_no_state" ->
             \* state is None: the binary-sensor branch answers 0, otherwise
             \* re.search raises TypeError and the outer handler returns None
             [ret |-> TRUE,
              value |-> IF device_type = "sensor" /\ StartsWith(entity_id, (* binary_sensor. *) <<"b","i","n","a","r","y","_","s","e","n","s","o","r",".">>)
                        THEN IntVal(0) ELSE None,
              elapsed |-> elapsed + r.dur]
      [] r.kind = "non200" ->
             [ret |-> FALSE, value |-> None, elapsed |-> elapsed + r.dur]
      [] r.kind = "request_exception" ->
             [ret |-> FALSE, value |-> None, elapsed |-> elapsed + r.dur + POLL_SLEEP]

\* _get_entity_value on the responses of run, from elapsed seconds after
\* start_time on: whether the call has returned by the end of run, its
\* return value, the polls it made and the seconds it took
RECURSIVE get_entity_value(_, _, _, _, _)
get_entity_value(run, elapsed, entity_id, device_type, timeout) ==
    IF ~PollAgain(elapsed, timeout)
    THEN [returned |-> TRUE, value |-> None, polls |-> 0, elapsed |-> elapsed]
    ELSE IF run = <<>>
    THEN [returned |-> FALSE, value |-> None, polls |-> 0, elapsed |-> elapsed]
    ELSE LET o == PollOnce(elapsed, Head(run), entity_id, device_type)
         IN  IF o.ret
             THEN [returned |-> TRUE, value |-> o.value, polls |-> 1, elapsed |-> o.elapsed]
             ELSE [get_entity_value(Tail(run), o.elapsed, entity_id, device_type, timeout)
                      EXCEPT !.polls = @ + 1]

\* the responses a push thread's polls meet: one of each kind
PushResponses ==
    {[kind |-> "200", state |-> s, dur |-> 1] : s \in { (* unknown *) <<"u","n","k","n","o","w","n">>, (* on *) <<"o","n">>, (* 21.4 *) <<"2","1",".","4">>, (* n/a *) <<"n","/","a">> }}
    \cup {[kind |-> k, state |-> <<>>, dur |-> 1] : k \in {"200_no_state", "non200", "request_exception"}}

\* the runs of at most n responses
RECURSIVE RunsUpTo(_)
RunsUpTo(n) == IF n = 0 THEN {<<>>}
               ELSE RunsUpTo(n - 1) \cup {Append(r, x) : r \in {q \in RunsUpTo(n - 1) : Len(q) = n - 1}, x \in PushResponses}

(***************************************************************************)
(* HAto163Gateway._collect_device_data: conversion and rounding            *)
(***************************************************************************)
\* _parse_conversion_factors: the dict of the JSON text, {} for an empty or
\* a malformed text
BadFactors == "bad"
parse_conversion_factors(factors_str) == IF factors_str = BadFactors THEN <<>> ELSE factors_str

\* lines 195-211: the value stored in payload["params"][prop]
Convert(prop, value, conversion_factors) ==
    LET has    == \E i \in 1..Len(conversion_factors) : conversion_factors[i].p = prop
        factor == IF has
                  THEN conversion_factors[CHOOSE i \in 1..Len(conversion_factors) : conversion_factors[i].p = prop].e
                  ELSE IntVal(1)
        converted == RatMul(value, factor)
    IN  IF prop = "state" THEN value
        ELSE IF prop \in {"current", "active_power"} THEN Round(converted, 3)
        ELSE IF prop \in {"voltage", "temp", "hum", "frequency", "co2", "pm2_5", "pm10", "tvoc", "noise"}
             THEN Round(converted, 1)
        ELSE IF prop = "energy" THEN Round(converted, 4)
        ELSE converted

(***************************************************************************)
(* Configuration and platform: the inputs of one run                       *)
(***************************************************************************)

\* bounds of the model
MaxPasses == 2
MaxCycles == 1

\* A device of config["sub_devices"]; supported is the device's declared set
\* of supported properties (read nowhere by the source).
Device(id, type, prefix, supported, factors) ==
    [id |-> id, type |-> type, ha_entity_prefix |-> prefix, enabled |-> TRUE,
     supported |-> supported, conversion_factors |-> factors]

\* An entity of the platform's /api/states answer
Entity(entity_id, device_class, friendly_name) ==
    [entity_id |-> entity_id, device_class |-> device_class, friendly_name |-> friendly_name]

NoFactors == <<>>

\* one environment sensor, the two entities of the spec's end-to-end scenario
ScnRoom ==
    [sub_devices |-> << Device("env1", "sensor", (* sensor.room1_ *) <<"s","e","n","s","o","r",".","r","o","o","m","1","_">>, {"temp", "battery"}, NoFactors) >>,
     retry_attempts |-> 2,
     entities |-> << Entity((* sensor.room1_temperature *) <<"s","e","n","s","o","r",".","r","o","o","m","1","_","t","e","m","p","e","r","a","t","u","r","e">>, (* temperature *) <<"t","e","m","p","e","r","a","t","u","r","e">>, (* empty *) <<>>),
                     Entity((* sensor.room1_battery_level *) <<"s","e","n","s","o","r",".","r","o","o","m","1","_","b","a","t","t","e","r","y","_","l","e","v","e","l">>, (* empty *) <<>>, (* empty *) <<>>) >>]

\* two entities that resolve to the same property of the same device
ScnClash ==
    [sub_devices |-> << Device("env1", "sensor", (* sensor.room1_ *) <<"s","e","n","s","o","r",".","r","o","o","m","1","_">>, {"temp"}, NoFactors) >>,
     retry_attempts |-> 1,
     entities |-> << Entity((* sensor.room1_temperature *) <<"s","e","n","s","o","r",".","r","o","o","m","1","_","t","e","m","p","e","r","a","t","u","r","e">>, (* empty *) <<>>, (* empty *) <<>>),
                     Entity((* sensor.room1_temp_2 *) <<"s","e","n","s","o","r",".","r","o","o","m","1","_","t","e","m","p","_","2">>, (* empty *) <<>>, (* empty *) <<>>) >>]

\* a socket and an environment sensor whose prefixes overlap
ScnPlug ==
    [sub_devices |-> << Device("plug1", "socket", (* plug1_ *) <<"p","l","u","g","1","_">>, {"state", "active_power"}, NoFactors),
                        Device("env2", "sensor", (* sensor.plug1_ *) <<"s","e","n","s","o","r",".","p","l","u","g","1","_">>, {"temp"}, NoFactors) >>,
     retry_attempts |-> 1,
     entities |-> << Entity((* sensor.plug1_power *) <<"s","e","n","s","o","r",".","p","l","u","g","1","_","p","o","w","e","r">>, (* empty *) <<>>, (* Plug 1 Power *) <<"P","l","u","g"," ","1"," ","P","o","w","e","r">>) >>]

\* no device declared, nothing reported
ScnEmpty ==
    [sub_devices |-> << >>, retry_attempts |-> 1, entities |-> << >>]

\* retry_attempts = 0: the for loop of load_ha_entities has no iteration
ScnNoAttempt ==
    [sub_devices |-> ScnRoom.sub_devices, retry_attempts |-> 0, entities |-> ScnRoom.entities]

Scenarios == {ScnRoom, ScnClash, ScnPlug, ScnEmpty, ScnNoAttempt}

\* config["single_entity_timeout"], seconds
SINGLE_ENTITY_TIMEOUT == 4

\* the entity ids and the device types of the scenarios
ScenarioEntityIds == UNION {{s.entities[i].entity_id : i \in 1..Len(s.entities)} : s \in Scenarios}
ScenarioDeviceTypes == UNION {{s.sub_devices[k].type : k \in 1..Len(s.sub_devices)} : s \in Scenarios}

\* what the calls _get_entity_value(entity_id, device_type) of a push thread
\* can return, over the runs of at most MaxPolls responses that the call
\* consumes to the last and returns on: whether None, and which numbers
ReturnsNone ==
    [entity_id \in ScenarioEntityIds |->
        [device_type \in ScenarioDeviceTypes |->
            \E run \in RunsUpTo(MaxPolls) :
                LET o == get_entity_value(run, 0, entity_id, device_type, SINGLE_ENTITY_TIMEOUT)
                IN  o.returned /\ o.polls = Len(run) /\ o.value = None]]

ReturnNumbers ==
    [entity_id \in ScenarioEntityIds |->
        [device_type \in ScenarioDeviceTypes |->
            {get_entity_value(run, 0, entity_id, device_type, SINGLE_ENTITY_TIMEOUT).value :
                run \in {r \in RunsUpTo(MaxPolls) :
                            LET o == get_entity_value(r, 0, entity_id, device_type, SINGLE_ENTITY_TIMEOUT)
                            IN  o.returned /\ o.polls = Len(r) /\ o.value # None}}]]

VARIABLES
    config,          \* the loaded configuration (ConfigLoader().config)
    ha_states,       \* what the platform answers to GET /api/states
    matched_devices, \* HAto163Gateway.matched_devices: the table object in effect (0: an empty dict)
    tables,          \* the table objects built by the passes: pass -> device index -> entities dict
    npass,           \* discovery passes started so far
    gpc,             \* position of the gateway's main thread
    dcaller,         \* who called _discover_devices: "start" or "loop"
    dresult,         \* what the last _discover_devices call returned
    prev_table,      \* matched_devices when the running / last pass began
    attempt,         \* load_ha_entities: the attempt being made
    n_requests,      \* load_ha_entities: list requests issued by the current call
    resp,            \* load_ha_entities: the response held in resp
    load_result,     \* how the last load_ha_entities call ended
    mw,              \* per pass: the DeviceMatchWorker thread
    thr,             \* per pass and entity: the EntityProcess thread
    ncycle,          \* push cycles started so far
    psub,            \* _run_loop: the devices of the cycle still to submit
    fut,             \* per cycle and device: the future of _push_device_with_timeout
    pth,             \* per cycle and device: the push thread (_push_device_data)
    published,       \* the payloads handed to mqtt_client.publish
    pass_end,        \* per pass: how the pass ended
    last_fetch,      \* load_ha_entities: what the last list request did
    gv,              \* a _get_entity_value call on its own: its inputs and its result
    running,         \* HAto163Gateway.running
    executor_shutdown \* self.executor.shutdown(...) has been called by _stop

cfgVars   == <<config, ha_states, gv, running, executor_shutdown>>
loadVars  == <<attempt, n_requests, resp, load_result, last_fetch>>
matchVars == <<mw, thr>>
pushVars  == <<ncycle, psub, fut, pth, published>>

vars == <<config, ha_states, matched_devices, tables, npass, gpc, dcaller, dresult,
          prev_table, attempt, n_requests, resp, load_result, mw, thr,
          ncycle, psub, fut, pth, published, pass_end, last_fetch, gv,
          running, executor_shutdown>>

\* self.sub_devices of HADiscovery.__init__: the enabled devices, in declared order
sub_devices == SelectSeq(config.sub_devices, LAMBDA d : d.enabled)

NDev == Len(sub_devices)
NEnt == Len(ha_states)

(***************************************************************************)
(* dicts: a dict is the sequence of its items in insertion order           *)
(***************************************************************************)
Keys(d) == {d[i].p : i \in 1..Len(d)}
DictGet(d, key) == d[CHOOSE i \in 1..Len(d) : d[i].p = key].e
\* d[key] = value
DictSet(d, key, value) ==
    IF key \in Keys(d)
    THEN [i \in 1..Len(d) |-> IF d[i].p = key THEN [p |-> key, e |-> value] ELSE d[i]]
    ELSE Append(d, [p |-> key, e |-> value])
\* d1 == d2 of Python: the same keys with the same values, whatever the order
DictEq(d1, d2) == Keys(d1) = Keys(d2) /\ \A key \in Keys(d1) : DictGet(d1, key) = DictGet(d2, key)

\* the content of table object t: device index -> entities dict; object 0 is {}
TableOf(t) == IF t = 0 THEN <<>> ELSE tables[t]

(***************************************************************************)
(* HADiscovery._process_single_entity: the claims (device, property) the   *)
(* thread of one entity attempts, in the order it attempts them. The       *)
(* property each (entity, device) pair resolves to does not depend on the  *)
(* table, only the save does.                                              *)
(***************************************************************************)
DevIdx == [i \in 1..NDev |-> i]

\* raw_prefix of the device's entry, line 221
raw_prefix(k) == Strip(sub_devices[k].ha_entity_prefix, " ")

EnvClaims(entity) ==
    LET hit(k) == /\ sub_devices[k].type \in environment_types
                  /\ EnvironmentProperty(entity, raw_prefix(k)) # None
        ks == SelectSeq(DevIdx, hit)
    IN  [j \in 1..Len(ks) |->
            [dev |-> ks[j], prop |-> EnvironmentProperty(entity, raw_prefix(ks[j]))]]

ElecClaims(entity) ==
    LET hit(k) == /\ sub_devices[k].type \in electric_device_types
                  /\ ElectricProperty(entity, raw_prefix(k)) # None
        ks == SelectSeq(DevIdx, hit)
    IN  [j \in 1..Len(ks) |->
            [dev |-> ks[j], prop |-> ElectricProperty(entity, raw_prefix(ks[j]))]]

process_single_entity(entity) ==
    IF entity.entity_id = <<>> THEN <<>>
    ELSE (IF StartsWith(entity.entity_id, (* sensor. *) <<"s","e","n","s","o","r",".">>) \/ StartsWith(entity.entity_id, (* binary_sensor. *) <<"b","i","n","a","r","y","_","s","e","n","s","o","r",".">>)
          THEN EnvClaims(entity) ELSE <<>>)
         \o
         (IF StartsWith(entity.entity_id, (* switch. *) <<"s","w","i","t","c","h",".">>) \/ StartsWith(entity.entity_id, (* sensor. *) <<"s","e","n","s","o","r",".">>)
          THEN ElecClaims(entity) ELSE <<>>)

\* resp = None of load_ha_entities, line 113: no response so far
NoResponse == 0

IdleThread == [pc |-> "unstarted", todo |-> <<>>]
NoWorker == [pc |-> "none", i |-> 0]
NoPushThread == [pc |-> "unstarted", tref |-> 0, size0 |-> 0, pos |-> 0,
                 params |-> <<>>, vals |-> <<>>, result |-> None]

\* the state after HAto163Gateway.__init__, for the inputs of scenario s
InitGateway(s) ==
    /\ config = [sub_devices |-> s.sub_devices, retry_attempts |-> s.retry_attempts,
                 single_entity_timeout |-> SINGLE_ENTITY_TIMEOUT]
    /\ ha_states = s.entities
    /\ matched_devices = 0
    /\ tables = [t \in 1..MaxPasses |-> <<>>]
    /\ npass = 0
    /\ gpc = "start"
    /\ dcaller = "start"
    /\ dresult = None
    /\ prev_table = 0
    /\ attempt = 0
    /\ n_requests = 0
    /\ resp = NoResponse
    /\ load_result = None
    /\ last_fetch = None
    /\ pass_end = [t \in 1..MaxPasses |-> None]
    /\ mw = [t \in 1..MaxPasses |-> NoWorker]
    /\ thr = [t \in 1..MaxPasses |-> <<>>]
    /\ ncycle = 0
    /\ psub = <<>>
    /\ fut = [c \in 1..MaxCycles |-> <<>>]
    /\ pth = [c \in 1..MaxCycles |-> <<>>]
    /\ published = {}
    /\ running = TRUE
    /\ executor_shutdown = FALSE

NoResult == [returned |-> FALSE, value |-> None, polls |-> 0, elapsed |-> 0]

NoCall == [run |-> <<>>, entity_id |-> <<>>, device_type |-> None, called |-> FALSE, res |-> NoResult]

Init == \E s \in Scenarios : InitGateway(s) /\ gv = NoCall

(***************************************************************************)
(* HAto163Gateway._discover_devices and HADiscovery.discover               *)
(***************************************************************************)

\* _discover_devices returns result to its caller: start() gives up on
\* False, _run_loop goes on to its push test whatever the result
ReturnFromDiscovery(result, how) ==
    /\ dresult' = IF result THEN "True" ELSE "False"
    /\ pass_end' = [pass_end EXCEPT ![npass] = how]
    /\ gpc' = IF dcaller = "start" THEN (IF result THEN "loop" ELSE "exit") ELSE "push_check"

\* start() calls _discover_devices (the initial discovery)
StartInitialDiscovery ==
    /\ gpc = "start"
    /\ gpc' = "ctor"
    /\ dcaller' = "start"
    /\ npass' = npass + 1
    /\ prev_table' = matched_devices
    /\ UNCHANGED <<cfgVars, matched_devices, tables, dresult, pass_end, loadVars, matchVars, pushVars>>

\* _run_loop: now - last_discovery >= discovery_interval
LoopDiscovery ==
    /\ gpc = "loop"
    /\ running
    /\ npass < MaxPasses
    /\ gpc' = "ctor"
    /\ dcaller' = "loop"
    /\ npass' = npass + 1
    /\ prev_table' = matched_devices
    /\ UNCHANGED <<cfgVars, matched_devices, tables, dresult, pass_end, loadVars, matchVars, pushVars>>

\* _run_loop: the discovery interval has not elapsed
LoopNoDiscovery ==
    /\ gpc = "loop"
    /\ running
    /\ gpc' = "push_check"
    /\ UNCHANGED <<cfgVars, matched_devices, tables, npass, dcaller, dresult, pass_end, prev_table,
                   loadVars, matchVars, pushVars>>

\* HADiscovery(self.config, self.ha_headers).  HADiscovery.__init__ of this
\* tree declares a third parameter, ha_session, that the call does not pass,
\* so with this __init__ the call raises TypeError; the comment at the call
\* says two arguments are the constructor's signature.  Both outcomes are
\* steps of the model: "raise" ends in the except branch (table untouched).
CtorOutcomes == {"raise", "ok"}

Construct ==
    /\ gpc = "ctor"
    /\ \E outcome \in CtorOutcomes :
          IF outcome = "raise"
          THEN /\ ReturnFromDiscovery(FALSE, "ctor_raise")
               /\ UNCHANGED loadVars
          ELSE /\ gpc' = "load"
               /\ attempt' = 1
               /\ n_requests' = 0
               /\ resp' = NoResponse
               /\ load_result' = None
               /\ last_fetch' = None
               /\ UNCHANGED <<dresult, pass_end>>
    /\ UNCHANGED <<cfgVars, matched_devices, tables, npass, dcaller, prev_table, matchVars, pushVars>>

\* what one GET /api/states can do: a 200 answer with a JSON body, a 200
\* answer whose body does not parse, another 2xx answer, a timeout, a
\* connection error, an HTTP error status, any other exception
FetchOutcomes == {"ok200", "ok200_badjson", "ok204", "timeout", "connection", "http_error", "other"}

\* a load_ha_entities that would go on after an HTTP error as well
RetriedAlsoHTTPError(outcome) == outcome \in {"timeout", "connection", "other", "http_error"}

\* whether the except branch of an outcome lets the for loop go on
Retried(outcome) == outcome \in {"timeout", "connection", "other"}

\* _match_entities_to_devices, lines 217-230: the fresh table of a pass
FreshTable == [k \in 1..NDev |-> <<>>]

\* discover() after a successful load: the DeviceMatchWorker thread starts
\* and builds the empty table of pass npass
BeginMatch ==
    /\ tables' = [tables EXCEPT ![npass] = FreshTable]
    /\ mw' = [mw EXCEPT ![npass] = [pc |-> IF NEnt = 0 THEN "done" ELSE "start", i |-> 1]]
    /\ thr' = [thr EXCEPT ![npass] = [i \in 1..NEnt |-> IdleThread]]
    /\ gpc' = "await"

\* discover() when load_ha_entities returned False: return {} ; then
\* _discover_devices, lines 94-104, installs what discover returned
LoadFailed ==
    /\ matched_devices' = 0
    /\ ReturnFromDiscovery(FALSE, "load_false")
    /\ UNCHANGED <<tables, mw, thr>>

\* load_ha_entities raised (the except clause at line 154 names json, which
\* the module does not import: a body that does not parse ends in NameError);
\* _discover_devices catches it at line 106
LoadRaised ==
    /\ ReturnFromDiscovery(FALSE, "load_raise")
    /\ UNCHANGED <<matched_devices, tables, mw, thr>>

\* one iteration of the for loop of load_ha_entities, and, when the loop
\* ends with it, the rest of the function and what discover() does next
LoadAttempt ==
    /\ gpc = "load"
    /\ attempt <= config.retry_attempts
    /\ \E outcome \in FetchOutcomes :
          /\ n_requests' = n_requests + 1
          /\ last_fetch' = outcome
          /\ resp' = CASE outcome \in {"ok200", "ok200_badjson"} -> 200
                       [] outcome = "ok204" -> 204
                       [] outcome = "http_error" -> 500
                       [] OTHER -> resp
          /\ CASE Retried(outcome) ->
                     /\ attempt' = attempt + 1
                     /\ UNCHANGED <<load_result, gpc, dresult, pass_end, matched_devices, tables, mw, thr>>
               [] ~Retried(outcome) /\ outcome = "ok200" ->
                     /\ load_result' = "True"
                     /\ attempt' = attempt
                     /\ BeginMatch
                     /\ UNCHANGED <<matched_devices, dresult, pass_end>>
               [] ~Retried(outcome) /\ outcome = "ok200_badjson" ->
                     /\ load_result' = "raise"
                     /\ attempt' = attempt
                     /\ LoadRaised
               [] OTHER ->
                     /\ load_result' = "False"
                     /\ attempt' = attempt
                     /\ LoadFailed
    /\ UNCHANGED <<cfgVars, npass, dcaller, prev_table, pushVars>>

\* the for loop of load_ha_entities has run out of attempts: resp is None
LoadExhausted ==
    /\ gpc = "load"
    /\ attempt > config.retry_attempts
    /\ load_result' = "False"
    /\ LoadFailed
    /\ UNCHANGED <<cfgVars, npass, dcaller, prev_table, attempt, n_requests, resp, last_fetch, pushVars>>

(***************************************************************************)
(* HADiscovery._match_entities_to_devices (the DeviceMatchWorker thread)   *)
(***************************************************************************)

\* thread.start() of the i-th entity; after the last one the joins begin
StartEntityThread(t) ==
    /\ mw[t].pc = "start"
    /\ LET i == mw[t].i
           todo == process_single_entity(ha_states[i])
       IN  /\ thr' = [thr EXCEPT ![t][i] = [pc |-> IF todo = <<>> THEN "done" ELSE "check",
                                            todo |-> todo]]
           /\ mw' = [mw EXCEPT ![t] = IF i = NEnt THEN [pc |-> "join", i |-> 1]
                                      ELSE [pc |-> "start", i |-> i + 1]]
    /\ UNCHANGED <<cfgVars, matched_devices, tables, npass, gpc, dcaller, dresult, pass_end, prev_table,
                   loadVars, pushVars>>

\* thread.join(timeout=5) of the i-th entity returns: the thread has ended,
\* or 5 seconds have passed and it has not.  After the last join the
\* function returns the table (match_result is set, the worker ends).
JoinEntityThread(t) ==
    /\ mw[t].pc = "join"
    /\ mw' = [mw EXCEPT ![t] = IF mw[t].i = NEnt THEN [pc |-> "done", i |-> 0]
                               ELSE [pc |-> "join", i |-> mw[t].i + 1]]
    /\ UNCHANGED <<cfgVars, matched_devices, tables, npass, gpc, dcaller, dresult, pass_end, prev_table,
                   loadVars, thr, pushVars>>

\* a join of the worker without its timeout: while the worker is alive it
\* does not return
DiscoverJoinWithoutTimeout ==
    /\ gpc = "await"
    /\ mw[npass].pc # "done"
    /\ UNCHANGED vars

\* match_thread.join(timeout=30) returns with the worker ended: discover
\* returns match_result and _discover_devices installs it (line 103)
DiscoverReturns ==
    /\ gpc = "await"
    /\ mw[npass].pc = "done"
    /\ matched_devices' = npass
    /\ ReturnFromDiscovery(NDev > 0, "ok")
    /\ UNCHANGED <<cfgVars, tables, npass, dcaller, prev_table, loadVars, matchVars, pushVars>>

\* match_thread.join(timeout=30) returns with the worker still alive:
\* discover returns {} and _discover_devices installs it
DiscoverTimesOut ==
    /\ gpc = "await"
    /\ mw[npass].pc # "done"
    /\ matched_devices' = 0
    /\ ReturnFromDiscovery(FALSE, "deadline")
    /\ UNCHANGED <<cfgVars, tables, npass, dcaller, prev_table, loadVars, matchVars, pushVars>>

(***************************************************************************)
(* The EntityProcess threads: _match_environment_entity and                *)
(* _match_electric_entity, lines 313-316 and 361-364.  The membership test *)
(* and the store are two steps: other threads run between them.            *)
(***************************************************************************)
Advance(th) == [pc |-> IF Len(th.todo) = 1 THEN "done" ELSE "check", todo |-> Tail(th.todo)]

\* property_name not in device_data["entities"]
EntityCheck(t, i) ==
    /\ thr[t][i].pc = "check"
    /\ LET c == Head(thr[t][i].todo)
       IN  thr' = [thr EXCEPT ![t][i] =
                      IF c.prop \notin Keys(tables[t][c.dev])
                      THEN [pc |-> "write", todo |-> thr[t][i].todo]
                      ELSE Advance(thr[t][i])]
    /\ UNCHANGED <<cfgVars, matched_devices, tables, npass, gpc, dcaller, dresult, pass_end, prev_table,
                   loadVars, mw, pushVars>>

\* device_data["entities"][property_name] = entity_id
EntityWrite(t, i) ==
    /\ thr[t][i].pc = "write"
    /\ LET c == Head(thr[t][i].todo)
       IN  tables' = [tables EXCEPT ![t][c.dev] = DictSet(@, c.prop, ha_states[i].entity_id)]
    /\ thr' = [thr EXCEPT ![t][i] = Advance(@)]
    /\ UNCHANGED <<cfgVars, matched_devices, npass, gpc, dcaller, dresult, pass_end, prev_table,
                   loadVars, mw, pushVars>>

(***************************************************************************)
(* HAto163Gateway._run_loop: the push cycle                                *)
(***************************************************************************)

\* the keys of the table in effect, in insertion order (device indices)
TableDevices(t) == IF t = 0 THEN <<>> ELSE DevIdx

\* now - last_push >= push_interval: the cycle begins; the for loop of line
\* 310 iterates the table in effect
PushDue ==
    /\ gpc = "push_check"
    /\ ncycle < MaxCycles
    /\ ncycle' = ncycle + 1
    /\ psub' = TableDevices(matched_devices)
    /\ fut' = [fut EXCEPT ![ncycle + 1] = [k \in 1..NDev |-> "none"]]
    /\ pth' = [pth EXCEPT ![ncycle + 1] = [k \in 1..NDev |-> NoPushThread]]
    /\ gpc' = IF TableDevices(matched_devices) = <<>> THEN "loop" ELSE "submit"
    /\ UNCHANGED <<cfgVars, matched_devices, tables, npass, dcaller, dresult, pass_end, prev_table,
                   loadVars, matchVars, published>>

\* the push interval has not elapsed: time.sleep(1) and the next iteration
PushNotDue ==
    /\ gpc = "push_check"
    /\ gpc' = "loop"
    /\ UNCHANGED <<cfgVars, matched_devices, tables, npass, dcaller, dresult, pass_end, prev_table,
                   loadVars, matchVars, pushVars>>

\* executor.submit(self._push_device_with_timeout, device_id, timeout=60):
\* the pool's worker starts push_thread, which enters _push_device_data and
\* _collect_device_data and takes the device's entry of the table in effect
\* (lines 222, 174-178) and the iterator of its entities (line 191)
SubmitPush ==
    /\ gpc = "submit"
    /\ IF executor_shutdown
       THEN \* submit raises RuntimeError (cannot schedule new futures after
            \* shutdown); nothing in _run_loop or start() catches it
            /\ gpc' = "raised"
            /\ UNCHANGED <<fut, pth, psub>>
       ELSE /\ LET k == Head(psub)
               IN  /\ fut' = [fut EXCEPT ![ncycle][k] = "running"]
                   /\ pth' = [pth EXCEPT ![ncycle][k] =
                                 [NoPushThread EXCEPT !.pc = "iter", !.tref = matched_devices,
                                                      !.size0 = Len(tables[matched_devices][k])]]
            /\ psub' = Tail(psub)
            /\ gpc' = IF Len(psub) = 1 THEN "results" ELSE "submit"
    /\ UNCHANGED <<cfgVars, matched_devices, tables, npass, dcaller, dresult, pass_end, prev_table,
                   loadVars, matchVars, ncycle, published>>

\* the loop of lines 319-327 has had the result of every future
CycleEnd ==
    /\ gpc = "results"
    /\ \A k \in 1..NDev : fut[ncycle][k] \in {"True", "False"}
    /\ gpc' = "loop"
    /\ UNCHANGED <<cfgVars, matched_devices, tables, npass, dcaller, dresult, pass_end, prev_table,
                   loadVars, matchVars, pushVars>>

(***************************************************************************)
(* HAto163Gateway._push_device_with_timeout and the push thread            *)
(***************************************************************************)

\* a join without its timeout: it returns only when the thread has ended
PushJoinWithoutTimeout(c, k) ==
    /\ fut[c][k] = "running"
    /\ pth[c][k].pc \in {"done", "raised"}
    /\ fut' = [fut EXCEPT ![c][k] = "True"]
    /\ UNCHANGED <<cfgVars, matched_devices, tables, npass, gpc, dcaller, dresult, pass_end, prev_table,
                   loadVars, matchVars, ncycle, psub, pth, published>>

\* push_thread.join(timeout=60) returns: the thread has ended (True,
\* whatever it returned or raised), or it is still alive (False)
PushJoin(c, k) ==
    /\ fut[c][k] = "running"
    /\ fut' = [fut EXCEPT ![c][k] = IF pth[c][k].pc \in {"done", "raised"} THEN "True" ELSE "False"]
    /\ UNCHANGED <<cfgVars, matched_devices, tables, npass, gpc, dcaller, dresult, pass_end, prev_table,
                   loadVars, matchVars, ncycle, psub, pth, published>>

\* the entities dict the push thread iterates: the live dict of its table
EntitiesOf(th, k) == tables[th.tref][k]

\* a collection in which one failed entity would empty the device's payload
StoreValueEscalates(th, k, item, value) ==
    [th EXCEPT !.pos = th.pos + 1,
               !.vals = Append(th.vals, [p |-> item.p, got |-> value # None]),
               !.params = IF value # None /\ \A j \in 1..Len(th.vals) : th.vals[j].got
                          THEN DictSet(th.params, item.p, value)
                          ELSE <<>>]

\* lines 193-216: what _collect_device_data does with the value of the
\* property of item
StoreValue(th, k, item, value) ==
    [th EXCEPT !.pos = th.pos + 1,
               !.vals = Append(th.vals, [p |-> item.p, got |-> value # None]),
               !.params = IF value # None
                          THEN DictSet(th.params, item.p,
                                       Convert(item.p, value,
                                               parse_conversion_factors(sub_devices[k].conversion_factors)))
                          ELSE th.params]

\* a _push_device_data without the test of line 226
AfterCollectWithoutEmptyTest(th) == [th EXCEPT !.pc = "publish"]

\* lines 225-230, after the loop of _collect_device_data has ended
AfterCollect(th) ==
    IF th.params = <<>> THEN [th EXCEPT !.pc = "done", !.result = "False"]
    ELSE [th EXCEPT !.pc = "publish"]

\* for prop, entity_id in entities.items(): one step of the loop of line
\* 191.  The iterator raises RuntimeError when the dict has changed size
\* since it was made; at the end of the dict the loop ends; otherwise the
\* body runs: _get_entity_value on the next item (a call that reads nothing
\* the other threads write) and the store of its value.
PushCollect(c, k) ==
    /\ pth[c][k].pc = "iter"
    /\ LET th == pth[c][k]
           d  == EntitiesOf(th, k)
       IN  IF Len(d) # th.size0
           THEN pth' = [pth EXCEPT ![c][k] = [th EXCEPT !.pc = "raised"]]
           ELSE IF th.pos = Len(d)
           THEN pth' = [pth EXCEPT ![c][k] = AfterCollect(th)]
           ELSE LET item == d[th.pos + 1]
                    ty == sub_devices[k].type
                IN  \/ /\ ReturnsNone[item.e][ty]
                       /\ pth' = [pth EXCEPT ![c][k] = StoreValue(th, k, item, None)]
                    \/ \E value \in ReturnNumbers[item.e][ty] :
                          pth' = [pth EXCEPT ![c][k] = StoreValue(th, k, item, value)]
    /\ UNCHANGED <<cfgVars, matched_devices, tables, npass, gpc, dcaller, dresult, pass_end, prev_table,
                   loadVars, matchVars, ncycle, psub, fut, published>>

\* what mqtt_client.publish can do
PublishOutcomes == {"True", "False", "raise"}

\* line 231: self.mqtt_client.publish(device_config, payload)
PushPublish(c, k) ==
    /\ pth[c][k].pc = "publish"
    /\ published' = published \cup {[cycle |-> c, dev |-> k, params |-> pth[c][k].params]}
    /\ \E outcome \in PublishOutcomes :
          pth' = [pth EXCEPT ![c][k] =
                     IF outcome = "raise" THEN [@ EXCEPT !.pc = "raised"]
                     ELSE [@ EXCEPT !.pc = "done", !.result = outcome]]
    /\ UNCHANGED <<cfgVars, matched_devices, tables, npass, gpc, dcaller, dresult, pass_end, prev_table,
                   loadVars, matchVars, ncycle, psub, fut>>

(***************************************************************************)
(* _get_entity_value on its own: the inputs are drawn by InitValue, the    *)
(* call is one step                                                        *)
(***************************************************************************)

\* bound: the responses of a drawn run
MaxRunLen == 3

ValueInputs ==
    { << (* sensor.room1_temperature *) <<"s","e","n","s","o","r",".","r","o","o","m","1","_","t","e","m","p","e","r","a","t","u","r","e">>, "sensor" >>,
      << (* binary_sensor.room1_door *) <<"b","i","n","a","r","y","_","s","e","n","s","o","r",".","r","o","o","m","1","_","d","o","o","r">>, "sensor" >>,
      << (* switch.plug1_relay *) <<"s","w","i","t","c","h",".","p","l","u","g","1","_","r","e","l","a","y">>, "socket" >> }

RECURSIVE ResponseRuns(_)
ResponseRuns(n) == IF n = 0 THEN {<<>>}
                   ELSE ResponseRuns(n - 1)
                        \cup {Append(r, x) : r \in {q \in ResponseRuns(n - 1) : Len(q) = n - 1}, x \in Responses}

InitValue ==
    /\ InitGateway(ScnRoom)
    /\ \E in \in ValueInputs : \E run \in ResponseRuns(MaxRunLen) :
          gv = [run |-> run, entity_id |-> in[1], device_type |-> in[2], called |-> FALSE, res |-> NoResult]

ValueCall ==
    /\ ~gv.called
    /\ gv.run # <<>>
    /\ gv' = [gv EXCEPT !.called = TRUE,
                        !.res = get_entity_value(gv.run, 0, gv.entity_id, gv.device_type,
                                                 config.single_entity_timeout)]
    /\ UNCHANGED <<config, ha_states, running, executor_shutdown,
                   matched_devices, tables, npass, gpc, dcaller, dresult,
                   pass_end, prev_table, loadVars, matchVars, pushVars>>

NextValue == ValueCall

SpecValue == InitValue /\ [][NextValue]_vars

(***************************************************************************)
(* _get_entity_value on one answer: a 200 response with a meaningful state *)
(* text, drawn with the entity and the device type by InitStateValue       *)
(***************************************************************************)

\* state texts other than those of line 125
MeaningfulStates == { (* on *) <<"o","n">>, (* off *) <<"o","f","f">>, (* trip *) <<"t","r","i","p">>, (* 21.4 *) <<"2","1",".","4">>, (* n/a *) <<"n","/","a">>, (* open *) <<"o","p","e","n">>, (* -3.5 dB *) <<"-","3",".","5"," ","d","B">>, (* Level 7 *) <<"L","e","v","e","l"," ","7">> }

\* entity_id and device_type of the call
StateValueInputs ==
    { << (* switch.plug1_relay *) <<"s","w","i","t","c","h",".","p","l","u","g","1","_","r","e","l","a","y">>, "switch" >>,
      << (* switch.plug1_relay *) <<"s","w","i","t","c","h",".","p","l","u","g","1","_","r","e","l","a","y">>, "socket" >>,
      << (* switch.plug1_relay *) <<"s","w","i","t","c","h",".","p","l","u","g","1","_","r","e","l","a","y">>, "breaker" >>,
      << (* sensor.plug1_power *) <<"s","e","n","s","o","r",".","p","l","u","g","1","_","p","o","w","e","r">>, "socket" >>,
      << (* binary_sensor.room1_door *) <<"b","i","n","a","r","y","_","s","e","n","s","o","r",".","r","o","o","m","1","_","d","o","o","r">>, "sensor" >>,
      << (* sensor.room1_temperature *) <<"s","e","n","s","o","r",".","r","o","o","m","1","_","t","e","m","p","e","r","a","t","u","r","e">>, "sensor" >> }

InitStateValue ==
    /\ InitGateway(ScnRoom)
    /\ \E in \in StateValueInputs : \E s \in MeaningfulStates : \E d \in Durations :
          gv = [run |-> << [kind |-> "200", state |-> s, dur |-> d] >>,
                entity_id |-> in[1], device_type |-> in[2], called |-> FALSE, res |-> NoResult]

SpecStateValue == InitStateValue /\ [][NextValue]_vars

(***************************************************************************)
(* The conversion of _collect_device_data on its own: the property, the    *)
(* collected value and the device's conversion_factors are drawn by        *)
(* InitConvert, lines 195-211 are one step                                 *)
(***************************************************************************)

\* the keys of the entities dict
ConvertProps == {"state", "current", "active_power", "energy", "temp", "voltage", "battery", "switch"}

\* what _get_entity_value returned: 1, 21.4, 1.23456, 87.46, 0.25
ConvertValues == { IntVal(1), Rat(214, 10), Rat(123456, 100000), Rat(8746, 100), Rat(25, 100) }

\* device_config.get("conversion_factors", ""): none, a text that does not
\* parse, a dict
ConvertFactors ==
    << NoFactors,
       BadFactors,
       << [p |-> "state", e |-> IntVal(2)],
          [p |-> "active_power", e |-> Rat(1, 1000)],
          [p |-> "battery", e |-> Rat(1, 3)],
          [p |-> "temp", e |-> Rat(1, 2)] >> >>

InitConvert ==
    /\ InitGateway(ScnRoom)
    /\ \E prop \in ConvertProps : \E value \in ConvertValues : \E f \in 1..Len(ConvertFactors) :
          gv = [prop |-> prop, value |-> value, factors_str |-> ConvertFactors[f],
                called |-> FALSE, res |-> IntVal(0)]

ConvertCall ==
    /\ ~gv.called
    /\ gv' = [gv EXCEPT !.called = TRUE,
                        !.res = Convert(gv.prop, gv.value, parse_conversion_factors(gv.factors_str))]
    /\ UNCHANGED <<config, ha_states, running, executor_shutdown,
                   matched_devices, tables, npass, gpc, dcaller, dresult,
                   pass_end, prev_table, loadVars, matchVars, pushVars>>

NextConvert == ConvertCall

SpecConvert == InitConvert /\ [][NextConvert]_vars

(***************************************************************************)
(* The matching on its own: one declared device and one reported entity    *)
(* are drawn by InitMatch, and _match_entities_to_devices builds the table *)
(* in one step, each EntityProcess thread running to its end before the    *)
(* next one starts.                                                        *)
(***************************************************************************)

\* type and ha_entity_prefix of the declared device
MatchDevices ==
    { << "sensor", (* sensor.room1_ *) <<"s","e","n","s","o","r",".","r","o","o","m","1","_">> >>,
      << "sensor", (* binary_sensor.room1_ *) <<"b","i","n","a","r","y","_","s","e","n","s","o","r",".","r","o","o","m","1","_">> >>,
      << "sensor", (* room1_ *) <<"r","o","o","m","1","_">> >>,
      << "socket", (* switch.plug1_ *) <<"s","w","i","t","c","h",".","p","l","u","g","1","_">> >>,
      << "switch", (* plug1_ *) <<"p","l","u","g","1","_">> >>,
      << "breaker", (* sensor.plug1_ *) <<"s","e","n","s","o","r",".","p","l","u","g","1","_">> >> }

\* entity_id, attributes.device_class and attributes.friendly_name of the
\* reported entity
MatchEntityIds ==
    { (* sensor.room1_temperature *) <<"s","e","n","s","o","r",".","r","o","o","m","1","_","t","e","m","p","e","r","a","t","u","r","e">>,
      (* sensor.room1_temperature_unit *) <<"s","e","n","s","o","r",".","r","o","o","m","1","_","t","e","m","p","e","r","a","t","u","r","e","_","u","n","i","t">>,
      (* sensor.room1_relative_humidity *) <<"s","e","n","s","o","r",".","r","o","o","m","1","_","r","e","l","a","t","i","v","e","_","h","u","m","i","d","i","t","y">>,
      (* sensor.room1_attempt *) <<"s","e","n","s","o","r",".","r","o","o","m","1","_","a","t","t","e","m","p","t">>,
      (* sensor.room1_co2 *) <<"s","e","n","s","o","r",".","r","o","o","m","1","_","c","o","2">>,
      (* sensor.room1_x1 *) <<"s","e","n","s","o","r",".","r","o","o","m","1","_","x","1">>,
      (* binary_sensor.room1_door *) <<"b","i","n","a","r","y","_","s","e","n","s","o","r",".","r","o","o","m","1","_","d","o","o","r">>,
      (* switch.plug1_relay *) <<"s","w","i","t","c","h",".","p","l","u","g","1","_","r","e","l","a","y">>,
      (* switch.plug1_power *) <<"s","w","i","t","c","h",".","p","l","u","g","1","_","p","o","w","e","r">>,
      (* sensor.plug1_power *) <<"s","e","n","s","o","r",".","p","l","u","g","1","_","p","o","w","e","r">>,
      (* sensor.plug1_x1 *) <<"s","e","n","s","o","r",".","p","l","u","g","1","_","x","1">> }

MatchDeviceClasses == { (* empty *) <<>>, (* humidity *) <<"h","u","m","i","d","i","t","y">>, (* Power *) <<"P","o","w","e","r">> }

MatchFriendlyNames == { (* empty *) <<>>, (* Room Temperature *) <<"R","o","o","m"," ","T","e","m","p","e","r","a","t","u","r","e">>, (* Plug CO2 Power *) <<"P","l","u","g"," ","C","O","2"," ","P","o","w","e","r">> }

MatchScenarios ==
    { [sub_devices |-> << Device("dev1", d[1], d[2], {}, NoFactors) >>,
       retry_attempts |-> 1,
       entities |-> << Entity(id, dc, fn) >>] :
      d \in MatchDevices, id \in MatchEntityIds, dc \in MatchDeviceClasses, fn \in MatchFriendlyNames }

InitMatch == \E s \in MatchScenarios : InitGateway(s) /\ gv = NoCall

\* the saves of one EntityProcess thread, lines 314-315 and 362-363, for the
\* claims it attempts in their order
RECURSIVE ApplyClaims(_, _, _)
ApplyClaims(tab, todo, entity_id) ==
    IF todo = <<>> THEN tab
    ELSE LET c == Head(todo)
         IN  ApplyClaims(IF c.prop \notin Keys(tab[c.dev])
                         THEN [tab EXCEPT ![c.dev] = DictSet(@, c.prop, entity_id)]
                         ELSE tab,
                         Tail(todo), entity_id)

\* the threads of entities i, i+1, ... run one after the other on table tab
RECURSIVE MatchInOrder(_, _)
MatchInOrder(tab, i) ==
    IF i > NEnt THEN tab
    ELSE MatchInOrder(ApplyClaims(tab, process_single_entity(ha_states[i]), ha_states[i].entity_id),
                      i + 1)

MatchCall ==
    /\ gpc = "start"
    /\ npass = 0
    /\ npass' = 1
    /\ gpc' = "matched"
    /\ tables' = [tables EXCEPT ![1] = MatchInOrder(FreshTable, 1)]
    /\ UNCHANGED <<cfgVars, matched_devices, dcaller, dresult, pass_end, prev_table,
                   loadVars, matchVars, pushVars>>

NextMatch == MatchCall

SpecMatch == InitMatch /\ [][NextMatch]_vars

(***************************************************************************)
(* Specifications                                                          *)
(***************************************************************************)

\* the steps of the threads of the discovery passes
MatchStep ==
    \/ \E t \in 1..MaxPasses : StartEntityThread(t) \/ JoinEntityThread(t)
    \/ \E t \in 1..MaxPasses : \E i \in 1..Len(thr[t]) : EntityCheck(t, i) \/ EntityWrite(t, i)

\* the steps of _discover_devices on the main thread
DiscoverStep ==
    \/ Construct
    \/ LoadAttempt
    \/ LoadExhausted
    \/ DiscoverReturns
    \/ DiscoverTimesOut

\* the steps of the push tasks
PushStep ==
    \E c \in 1..MaxCycles : \E k \in 1..Len(pth[c]) :
        PushJoin(c, k) \/ PushCollect(c, k) \/ PushPublish(c, k)

\* the gateway with discovery passes and no push cycle due
NextDiscovery ==
    \/ StartInitialDiscovery
    \/ LoopDiscovery
    \/ LoopNoDiscovery
    \/ PushNotDue
    \/ DiscoverStep
    \/ MatchStep

SpecDiscovery == Init /\ [][NextDiscovery]_vars

\* The main thread goes on when it can: a request with a timeout returns
\* or raises, and a join with a timeout returns.  Nothing is assumed of the
\* matching worker and of the entity threads: each may stop for good at any
\* step.
SpecDiscoveryFair ==
    /\ SpecDiscovery
    /\ WF_vars(DiscoverStep)

\* _stop(signum, frame): the handler of SIGINT and SIGTERM runs on the main
\* thread between two of its steps, wherever it is: running = False, and
\* the executor, if _run_loop has made one, is shut down (pending futures
\* cancelled, running tasks left to run)
Stop ==
    /\ running
    /\ gpc \notin {"exit", "stopped", "raised"}
    /\ running' = FALSE
    /\ executor_shutdown' = (gpc \in {"loop", "push_check", "submit", "results"})
    /\ UNCHANGED <<config, ha_states, gv, matched_devices, tables, npass, gpc, dcaller, dresult,
                   pass_end, prev_table, loadVars, matchVars, pushVars>>

\* while self.running: the test fails, _run_loop returns and start() logs
\* its normal exit
LoopExit ==
    /\ gpc = "loop"
    /\ ~running
    /\ gpc' = "stopped"
    /\ UNCHANGED <<cfgVars, matched_devices, tables, npass, dcaller, dresult, pass_end, prev_table,
                   loadVars, matchVars, pushVars>>

\* the gateway with its initial discovery and then push cycles
NextPush ==
    \/ StartInitialDiscovery
    \/ LoopNoDiscovery
    \/ PushDue
    \/ PushNotDue
    \/ SubmitPush
    \/ CycleEnd
    \/ DiscoverStep
    \/ MatchStep
    \/ PushStep

SpecPush == Init /\ [][NextPush]_vars

\* The main thread goes on when it can, and a join with a timeout returns.
\* Nothing is assumed of the push threads and of the entity threads: each
\* may stop for good at any step.
SpecPushFair ==
    /\ SpecPush
    /\ WF_vars(SubmitPush)
    /\ WF_vars(CycleEnd)
    /\ WF_vars(\E c \in 1..MaxCycles : \E k \in 1..Len(pth[c]) : PushJoin(c, k))

\* bound: the values of retry_attempts of the load scenarios
MaxRetry == 3

\* a platform that reports no entity, for each number of attempts
LoadScenarios ==
    {[sub_devices |-> ScnRoom.sub_devices, retry_attempts |-> r, entities |-> << >>] : r \in 0..MaxRetry}

InitLoad == \E s \in LoadScenarios : InitGateway(s) /\ gv = NoCall

\* the gateway with discovery passes over an empty entity list: the passes
\* are load_ha_entities and a match with no entity thread
NextLoad ==
    \/ StartInitialDiscovery
    \/ LoopDiscovery
    \/ LoopNoDiscovery
    \/ PushNotDue
    \/ Construct
    \/ LoadAttempt
    \/ LoadExhausted
    \/ DiscoverReturns

SpecLoad == InitLoad /\ [][NextLoad]_vars

\* the gateway of NextPush with the stop signal
NextStop == NextPush \/ Stop \/ LoopExit

SpecStop == Init /\ [][NextStop]_vars

Next == NextDiscovery \/ NextPush \/ Stop \/ LoopExit

Spec == Init /\ [][Next]_vars

(***************************************************************************)
(* Properties                                                              *)
(***************************************************************************)

\* the main thread is inside _discover_devices
InDiscovery == gpc \in {"ctor", "load", "await"}

\* pass t returned its table and every entity thread of the pass has ended
PassEnded(t) == pass_end[t] = "ok" /\ \A i \in 1..Len(thr[t]) : thr[t][i].pc = "done"

\* the entities, by their place in the catalog, that resolve to property
\* prop of device k
Claimants(k, prop) ==
    {i \in 1..NEnt : \E q \in 1..Len(process_single_entity(ha_states[i])) :
        process_single_entity(ha_states[i])[q] = [dev |-> k, prop |-> prop]}

\* C1: after _discover_devices has returned from a pass that failed (the
\* entity list was not fetched, or matching did not finish by the deadline,
\* or the pass raised), matched_devices is the table that was in effect
\* before the pass.
C1_FailedPassKeepsTable ==
    (npass >= 1 /\ ~InDiscovery
        /\ pass_end[npass] \in {"ctor_raise", "load_false", "load_raise", "deadline"})
    => matched_devices = prev_table

\* C2: while a push thread iterates the entities of a table that was
\* installed as matched_devices, no step adds an entry to that table: the
\* collection reads a complete table.
C2_NoPartialTableObserved ==
    [][\A c \in 1..MaxCycles : \A k \in 1..Len(pth[c]) :
          pth[c][k].pc = "iter" => tables'[pth[c][k].tref] = tables[pth[c][k].tref]]_vars

\* C3: two passes over the same entity list and device specs that both ran
\* to their end built the same table, device by device.
C3_PassesBuildSameTable ==
    \A t1, t2 \in 1..MaxPasses :
        (PassEnded(t1) /\ PassEnded(t2))
        => \A k \in 1..NDev : DictEq(tables[t1][k], tables[t2][k])

\* C4: at the end of a pass, the entity stored for a property of a device is
\* the first entity of the catalog, in the order the platform returned it,
\* among those that resolve to that property of that device.
C4_FirstInCatalogOrderWins ==
    \A t \in 1..MaxPasses :
        PassEnded(t)
        => \A k \in 1..NDev : \A j \in 1..Len(tables[t][k]) :
              tables[t][k][j].e = ha_states[Min(Claimants(k, tables[t][k][j].p))].entity_id

\* C5: in the table a pass has returned, an entity id is stored at most once
\* over all devices and all properties.
C5_EntityStoredAtMostOnce ==
    \A t \in 1..MaxPasses : \A k1, k2 \in 1..Len(tables[t]) :
        pass_end[t] = "ok" =>
        \A j1 \in 1..Len(tables[t][k1]) : \A j2 \in 1..Len(tables[t][k2]) :
            tables[t][k1][j1].e = tables[t][k2][j2].e => (k1 = k2 /\ j1 = j2)

\* C6: in the table a pass has returned, every property key of a device's
\* entity map is one of the device's supported properties, and so is every
\* key of the params of a payload published for the device.
C6_SupportedPropertyGate ==
    /\ \A t \in 1..MaxPasses : \A k \in 1..Len(tables[t]) :
          pass_end[t] = "ok" => Keys(tables[t][k]) \subseteq sub_devices[k].supported
    /\ \A x \in published : Keys(x.params) \subseteq sub_devices[x.dev].supported

\* C7: load_ha_entities issues at most retry_attempts list requests; after a
\* timeout or a connection error with attempts left it is still in its loop
\* (the next request follows); an HTTP error ends it at once with failure; a
\* successful response ends the requests; it ends after a retried failure
\* only when the attempts are used up, and then with failure.
C7_RetryPolicy ==
    /\ n_requests <= config.retry_attempts
    /\ (last_fetch \in {"timeout", "connection"} /\ n_requests < config.retry_attempts)
       => (load_result = None /\ gpc = "load" /\ attempt = n_requests + 1)
    /\ last_fetch = "http_error" => (load_result = "False" /\ gpc # "load")
    /\ last_fetch \in {"ok200", "ok200_badjson", "ok204"} => (load_result # None /\ gpc # "load")
    /\ (load_result # None /\ last_fetch \in {"timeout", "connection"})
       => (load_result = "False" /\ n_requests = config.retry_attempts)
    /\ load_result = "True" => last_fetch = "ok200"

\* a load that went through two timeouts or connection errors and failed
C7_Witness ==
    /\ load_result = "False"
    /\ last_fetch \in {"timeout", "connection"}
    /\ config.retry_attempts = 2
    /\ n_requests = 2
    /\ pass_end[npass] = "load_false"

\* a 200 answer that carries one of the states of line 125
IsUnknown(r) == r.kind = "200" /\ r.state \in UnknownStates

\* a poll that does not end the call
PollsOn(r) == IsUnknown(r) \/ r.kind \in {"non200", "request_exception"}

\* C8: a call of _get_entity_value never takes its value from a response
\* whose state is "unknown", "unavailable" or empty; after such a response
\* it polls again unless the timeout has elapsed; when it ends because the
\* timeout elapsed it returns no value; and once the timeout has elapsed it
\* has returned.
C8_ValuePolling ==
    gv.called =>
        LET o == gv.res
            n == gv.res.polls
            timeout == config.single_entity_timeout
        IN  /\ o.value # None => (n >= 1 /\ ~IsUnknown(gv.run[n]))
            /\ \A j \in 1..n : IsUnknown(gv.run[j]) =>
                  \/ j < n
                  \/ (o.value = None /\ o.returned /\ o.elapsed >= timeout)
                  \/ (o.value = None /\ ~o.returned /\ j = Len(gv.run))
            /\ (o.returned /\ (n = 0 \/ PollsOn(gv.run[n]))) => (o.value = None /\ o.elapsed >= timeout)
            /\ o.elapsed >= timeout => o.returned
            /\ ~o.returned => n = Len(gv.run)

\* a call that met an unknown state, polled again, and ended on the timeout
C8_Witness ==
    /\ gv.called
    /\ gv.res.returned
    /\ gv.res.polls >= 2
    /\ IsUnknown(gv.run[1])
    /\ IsUnknown(gv.run[gv.res.polls])
    /\ gv.res.value = None
    /\ gv.res.elapsed >= config.single_entity_timeout

\* C9: when the loop of _collect_device_data has ended, it has collected
\* every matched property of the device, and the keys of params are exactly
\* the properties whose collection returned a value.
C9_ParamsAreCollectedValues ==
    \A c \in 1..MaxCycles : \A k \in 1..Len(pth[c]) :
        pth[c][k].pc \in {"publish", "done"} =>
            /\ Len(pth[c][k].vals) = pth[c][k].size0
            /\ Keys(pth[c][k].params)
                  = {pth[c][k].vals[j].p : j \in {i \in 1..Len(pth[c][k].vals) : pth[c][k].vals[i].got}}

\* a published payload of a device one of whose entities gave no value
C9_Witness ==
    \E c \in 1..MaxCycles : \E k \in 1..Len(pth[c]) :
        /\ pth[c][k].pc = "done"
        /\ \E j \in 1..Len(pth[c][k].vals) : ~pth[c][k].vals[j].got
        /\ pth[c][k].params # <<>>
        /\ [cycle |-> c, dev |-> k, params |-> pth[c][k].params] \in published

\* C10: every payload handed to mqtt_client.publish holds at least one
\* property, and a push thread whose params are empty ends without a
\* publish call, returning False.
C10_NoEmptyPayloadPublished ==
    /\ \A x \in published : x.params # <<>>
    /\ \A c \in 1..MaxCycles : \A k \in 1..Len(pth[c]) :
          (pth[c][k].pc = "done" /\ pth[c][k].params = <<>>)
          => (pth[c][k].result = "False" /\ \A x \in published : ~(x.cycle = c /\ x.dev = k))

\* a device whose every entity gave no value, skipped in a cycle
C10_Witness ==
    \E c \in 1..MaxCycles : \E k \in 1..Len(pth[c]) :
        /\ pth[c][k].pc = "done"
        /\ pth[c][k].size0 > 0
        /\ Len(pth[c][k].vals) = pth[c][k].size0
        /\ pth[c][k].params = <<>>

\* push cycle c has ended
CycleEnded(c) == c < ncycle \/ (c = ncycle /\ gpc \notin {"submit", "results"})

\* C11: in a push cycle, whatever the push task of a device does (ends,
\* raises, or is still running when its join times out), the push task of
\* every device of the table in effect is started and its future gets a
\* result, and the cycle ends.
C11_PushIsolation ==
    /\ [](\A c \in 1..MaxCycles :
            (c <= ncycle /\ CycleEnded(c)) =>
                \A k \in 1..Len(pth[c]) :
                    pth[c][k].pc # "unstarted" /\ fut[c][k] \in {"True", "False"})
    /\ (gpc \in {"submit", "results"}) ~> (gpc = "loop")

\* a cycle that has ended with one device's push thread raised or still
\* running at its join, and another device's payload published
C11_Witness ==
    \E c \in 1..MaxCycles :
        /\ c <= ncycle /\ CycleEnded(c)
        /\ \E k1, k2 \in 1..Len(pth[c]) :
              /\ k1 # k2
              /\ (pth[c][k1].pc = "raised" \/ fut[c][k1] = "False")
              /\ pth[c][k2].pc = "done" /\ pth[c][k2].result = "True"
              /\ \E x \in published : x.cycle = c /\ x.dev = k2


\* C12: no failure ends the service.  With no stop signal (running stays
\* True in every behaviour of the model), the gateway is never at the end
\* of start(): not after a discovery pass that failed at the fetch of the
\* catalog, nor after one abandoned at its deadline.
C12_NoFailureEndsService ==
    (\E t \in 1..MaxPasses : pass_end[t] \in {"load_false", "load_raise", "deadline"})
        => gpc # "exit"


\* C13: a discovery pass always ends.  Once _discover_devices has begun a
\* pass, discover() returns to it (with the table, or with a failure at the
\* fetch or at the deadline), whatever the entity threads and the matching
\* worker do, a thread that never takes another step included.
C13_DiscoveryPassEnds == InDiscovery ~> ~InDiscovery

\* a pass has returned while one of its entity threads, started, has not
\* finished
C13_Witness ==
    /\ ~InDiscovery
    /\ \E t \in 1..MaxPasses :
          /\ pass_end[t] \in {"ok", "deadline"}
          /\ \E i \in 1..Len(thr[t]) : thr[t][i].pc \in {"check", "write"}

\* the one device and the one entity of a matching input, and the entity
\* map the matching built for the device
TheDevice == sub_devices[1]
TheEntity == ha_states[1]
Matched == gpc = "matched"
Stored == tables[1][1]
StoredIds == {Stored[i].e : i \in 1..Len(Stored)}

EndsWith(s, suffix) ==
    /\ Len(suffix) <= Len(s)
    /\ SubSeq(s, Len(s) - Len(suffix) + 1, Len(s)) = suffix

\* the domain of an entity id and its local name: before and after the
\* first "."
Domain(entity_id) == SplitHead(entity_id, ".")
LocalName(entity_id) ==
    IF Len(Domain(entity_id)) = Len(entity_id) THEN entity_id
    ELSE SubSeq(entity_id, Len(Domain(entity_id)) + 2, Len(entity_id))

\* C14: unit exclusion.  An entity whose local name contains "_unit_" or
\* ends with "_unit" is not a value of the device's entity map.
C14_UnitExclusion ==
    (Matched /\ (\/ Contains(LocalName(TheEntity.entity_id), (* _unit_ *) <<"_","u","n","i","t","_">>)
                 \/ EndsWith(LocalName(TheEntity.entity_id), (* _unit *) <<"_","u","n","i","t">>)))
        => TheEntity.entity_id \notin StoredIds

\* the entity passes the prefix test of the device (lines 286 and 329)
PassesPrefixTest == Contains(TheEntity.entity_id, raw_prefix(1))

\* the entity map holds the entity under property prop and nothing else
StoredAs(prop) == Stored = << [p |-> prop, e |-> TheEntity.entity_id] >>

\* C15: device-class priority.  A sensor-domain entity that passes the
\* prefix test and whose lower-cased device class is a key of the
\* vocabulary is stored under that key's value, whatever its identifier and
\* its friendly name contain.
C15_DeviceClassPriority ==
    (/\ Matched
     /\ Domain(TheEntity.entity_id) = (* sensor *) <<"s","e","n","s","o","r">>
     /\ PassesPrefixTest
     /\ InMapping(Lower(TheEntity.device_class)))
        => StoredAs(MappingGet(Lower(TheEntity.device_class)))

\* an entity of device class humidity whose identifier and friendly name
\* hold the key co2, stored under hum
C15_Witness ==
    /\ Matched
    /\ Domain(TheEntity.entity_id) = (* sensor *) <<"s","e","n","s","o","r">>
    /\ PassesPrefixTest
    /\ Lower(TheEntity.device_class) = (* humidity *) <<"h","u","m","i","d","i","t","y">>
    /\ Contains(LocalName(TheEntity.entity_id), (* co2 *) <<"c","o","2">>)
    /\ Contains(Lower(TheEntity.friendly_name), (* co2 *) <<"c","o","2">>)
    /\ StoredAs("hum")

\* the device is an environment sensor whose prefix begins the entity id,
\* the entity is of the sensor or binary_sensor domain, and its device class
\* is no key of the vocabulary
NameMatchingCase ==
    /\ TheDevice.type \in environment_types
    /\ Domain(TheEntity.entity_id) \in {(* sensor *) <<"s","e","n","s","o","r">>, (* binary_sensor *) <<"b","i","n","a","r","y","_","s","e","n","s","o","r">>}
    /\ StartsWith(TheEntity.entity_id, raw_prefix(1))
    /\ ~InMapping(Lower(TheEntity.device_class))

\* what is left of the entity id after the prefix, without leading and
\* trailing "_"
Residual ==
    Strip(SubSeq(TheEntity.entity_id, Len(raw_prefix(1)) + 1, Len(TheEntity.entity_id)), "_")

\* the parts of s between the "_" separators
RECURSIVE Parts(_)
Parts(s) ==
    LET head == SplitHead(s, "_")
    IN  IF Len(head) = Len(s) THEN << s >>
        ELSE << head >> \o Parts(SubSeq(s, Len(head) + 2, Len(s)))

\* parts a..b joined again by "_"
RECURSIVE JoinParts(_, _, _)
JoinParts(parts, a, b) ==
    IF a = b THEN parts[a] ELSE parts[a] \o << "_" >> \o JoinParts(parts, a + 1, b)

\* the runs of at most 3 consecutive parts of s, and s itself
RunsOfParts(s) ==
    LET parts == Parts(s)
    IN  {JoinParts(parts, w[1], w[2]) :
            w \in {x \in (1..Len(parts)) \X (1..Len(parts)) : x[1] <= x[2] /\ x[2] - x[1] < 3}}
        \cup {s}

\* C16: entity-core token matching.  With no recognised device class, a
\* residual that is itself a key of the vocabulary resolves to that key's
\* value (relative_humidity to the value of relative_humidity, not to that
\* of humidity), and a residual none of whose runs of parts is a key, with
\* no key in the friendly name either, resolves to nothing.
C16_TokenMatching ==
    (Matched /\ NameMatchingCase)
        => /\ InMapping(Residual) => StoredAs(MappingGet(Residual))
           /\ (/\ \A r \in RunsOfParts(Residual) : ~InMapping(r)
               /\ \A i \in 1..Len(PROPERTY_MAPPING) :
                     ~Contains(Lower(TheEntity.friendly_name), PROPERTY_MAPPING[i].k))
                 => Stored = <<>>

\* the items of the vocabulary whose key is in the lower-cased friendly name
FriendlyHits ==
    {i \in 1..Len(PROPERTY_MAPPING) :
        Contains(Lower(TheEntity.friendly_name), PROPERTY_MAPPING[i].k)}

\* no key of the vocabulary is in the residual, and the residual is in none
ResidualResolvesNothing ==
    \A i \in 1..Len(PROPERTY_MAPPING) :
        /\ ~Contains(Residual, PROPERTY_MAPPING[i].k)
        /\ ~Contains(PROPERTY_MAPPING[i].k, Residual)

\* C17: friendly-name fallback.  When neither the device class nor the
\* residual name resolves and the lower-cased friendly name holds a key of
\* the vocabulary, the entity is stored under the value of the first such
\* key in the vocabulary's order, whether the residual is empty or not.
C17_FriendlyNameFallback ==
    (Matched /\ NameMatchingCase /\ ResidualResolvesNothing /\ FriendlyHits # {})
        => StoredAs(FirstHit(FriendlyHits))

\* C18: actuator fixed mapping.  A switch-domain entity that passes the
\* prefix test of a switch, socket or breaker device is stored under state
\* and under no other property, whatever its device class and its friendly
\* name.
C18_ActuatorFixedMapping ==
    (/\ Matched
     /\ TheDevice.type \in electric_device_types
     /\ Domain(TheEntity.entity_id) = (* switch *) <<"s","w","i","t","c","h">>
     /\ PassesPrefixTest)
        => StoredAs("state")

\* a switch entity whose device class, identifier and friendly name all
\* hold the key power, stored under state
C18_Witness ==
    /\ Matched
    /\ TheDevice.type \in electric_device_types
    /\ Domain(TheEntity.entity_id) = (* switch *) <<"s","w","i","t","c","h">>
    /\ PassesPrefixTest
    /\ InMapping(Lower(TheEntity.device_class))
    /\ MappingGet(Lower(TheEntity.device_class)) = "active_power"
    /\ Contains(LocalName(TheEntity.entity_id), (* power *) <<"p","o","w","e","r">>)
    /\ Contains(Lower(TheEntity.friendly_name), (* power *) <<"p","o","w","e","r">>)
    /\ StoredAs("state")

\* C19: actuator prefix strictness.  A switch, socket or breaker device
\* stores an entity only when the entity's identifier, domain included,
\* begins with the declared prefix.
C19_ActuatorPrefixStrictness ==
    (Matched /\ TheDevice.type \in electric_device_types /\ Stored # <<>>)
        => StartsWith(TheEntity.entity_id, raw_prefix(1))

\* the declared prefix without its "sensor." or "binary_sensor." qualifier
Unqualified(prefix) ==
    IF StartsWith(prefix, (* binary_sensor. *) <<"b","i","n","a","r","y","_","s","e","n","s","o","r",".">>) THEN SubSeq(prefix, Len((* binary_sensor. *) <<"b","i","n","a","r","y","_","s","e","n","s","o","r",".">>) + 1, Len(prefix))
    ELSE IF StartsWith(prefix, (* sensor. *) <<"s","e","n","s","o","r",".">>) THEN SubSeq(prefix, Len((* sensor. *) <<"s","e","n","s","o","r",".">>) + 1, Len(prefix))
    ELSE prefix

\* C20: environment-sensor prefix normalisation.  For an environment
\* sensor whose declared prefix is a "sensor." or "binary_sensor."
\* qualifier followed by a text p, an entity of the sensor or binary_sensor
\* domain whose local name contains p is accepted whichever of the two
\* domains it is of: with a recognised device class it is stored under that
\* class's property.
C20_PrefixNormalization ==
    (/\ Matched
     /\ TheDevice.type \in environment_types
     /\ Unqualified(raw_prefix(1)) # raw_prefix(1)
     /\ Domain(TheEntity.entity_id) \in {(* sensor *) <<"s","e","n","s","o","r">>, (* binary_sensor *) <<"b","i","n","a","r","y","_","s","e","n","s","o","r">>}
     /\ Contains(LocalName(TheEntity.entity_id), Unqualified(raw_prefix(1)))
     /\ InMapping(Lower(TheEntity.device_class)))
        => StoredAs(MappingGet(Lower(TheEntity.device_class)))

\* the state text of the one answer of the call, and the value returned
AnsweredState == gv.run[1].state
Returned(v) == gv.res.value # None /\ gv.res.value = v
ReturnedFirstNumeral ==
    LET m == NumeralSearch(AnsweredState)
    IN  IF m[2] > 0 THEN Returned(FloatOf(SubSeq(AnsweredState, m[1], m[1] + m[2] - 1)))
        ELSE gv.res.value = None

\* C21: state text to value.  For a switch, socket or breaker device on,
\* off and trip give 1, 0 and 2; for a binary_sensor entity of a sensor
\* device on gives 1 and off gives 0; any other meaningful state gives its
\* first numeral, or no value when it holds none.
C21_StateTextMapping ==
    (gv.called /\ Len(gv.run) = 1 /\ gv.run[1].kind = "200" /\ AnsweredState \notin UnknownStates)
        => LET actuator == gv.device_type \in {"switch", "socket", "breaker"}
               binary   == gv.device_type = "sensor" /\ StartsWith(gv.entity_id, (* binary_sensor. *) <<"b","i","n","a","r","y","_","s","e","n","s","o","r",".">>)
           IN  /\ (actuator /\ AnsweredState = (* on *) <<"o","n">>) => Returned(IntVal(1))
               /\ (actuator /\ AnsweredState = (* off *) <<"o","f","f">>) => Returned(IntVal(0))
               /\ (actuator /\ AnsweredState = (* trip *) <<"t","r","i","p">>) => Returned(IntVal(2))
               /\ (binary /\ AnsweredState = (* on *) <<"o","n">>) => Returned(IntVal(1))
               /\ (binary /\ AnsweredState = (* off *) <<"o","f","f">>) => Returned(IntVal(0))
               /\ (/\ ~(actuator /\ AnsweredState \in {(* on *) <<"o","n">>, (* off *) <<"o","f","f">>, (* trip *) <<"t","r","i","p">>})
                   /\ ~(binary /\ AnsweredState \in {(* on *) <<"o","n">>, (* off *) <<"o","f","f">>}))
                     => ReturnedFirstNumeral

\* the factor configured for the drawn property, 1 when there is none
ConfiguredFactor ==
    LET f == IF gv.factors_str = BadFactors THEN <<>> ELSE gv.factors_str
    IN  IF \E i \in 1..Len(f) : f[i].p = gv.prop
        THEN f[CHOOSE i \in 1..Len(f) : f[i].p = gv.prop].e
        ELSE IntVal(1)

\* the decimals the conversion policy keeps for the drawn property
PolicyDecimals ==
    IF gv.prop \in {"current", "active_power"} THEN 3
    ELSE IF gv.prop = "energy" THEN 4
    ELSE 1

\* C22: conversion policy.  The value stored for state is the collected
\* value itself; the value stored for any other property is the collected
\* value times its factor (1 when none is configured), rounded to 3 decimals
\* for current and active_power, 4 for energy, 1 for every other property.
C22_ConversionPolicy ==
    gv.called =>
        gv.res = IF gv.prop = "state" THEN gv.value
                 ELSE Round(RatMul(gv.value, ConfiguredFactor), PolicyDecimals)

\* C23: push outcome reporting.  The result the push task of a device
\* returns to the cycle is True only if the device's payload was not empty
\* and publish returned True: not when the payload was empty, when publish
\* returned False, or when the worker raised.
C23_TruthfulPushOutcome ==
    \A c \in 1..MaxCycles : \A k \in 1..Len(pth[c]) :
        fut[c][k] = "True" =>
            /\ pth[c][k].pc = "done"
            /\ pth[c][k].result = "True"
            /\ pth[c][k].params # <<>>

\* C24: clean shutdown.  Wherever in the main loop the stop handler runs,
\* no push task is submitted afterwards to the executor it has shut down:
\* _run_loop does not end by the exception of such a submit, and start()
\* is on its way to its normal exit.
C24_CleanShutdown == ~running => gpc # "raised"

\* the payloads published for device k by the push thread of cycle c
PublishedBy(c, k) == {x \in published : x.cycle = c /\ x.dev = k}

\* C25: a timed-out push stays abandoned.  Once the push task of a device
\* has been reported to its cycle as timed out, the thread of that task
\* publishes no payload for the device.
C25_TimedOutPushStaysAbandoned ==
    [][\A c \in 1..MaxCycles : \A k \in 1..Len(fut[c]) :
          fut[c][k] = "False" => PublishedBy(c, k)' = PublishedBy(c, k)]_vars

=============================================================================
